---- MODULE Spec2Model ----
(***************************************************************************)
(* Verification model of the legaltech_ai compliance core:                 *)
(*   - the violation rule engine (call_data_service.py),                   *)
(*   - the text chunker and the retrieval store (rag_service.py).          *)
(*                                                                         *)
(* A data frame is modelled run-length encoded: a row group is a record    *)
(* [n, cell] standing for n identical consecutive rows with the cells      *)
(* cell[c], c in the frame's columns.  A cell is [k, v]: k = "val" (v is   *)
(* the number), "nan" (a null: NaN / NaT) or "bad" (a timestamp string     *)
(* pandas cannot parse).  A computed rate is [k, n, d]: the exact rational *)
(* n/d (k = "val"), +infinity (k = "inf", x/0) or NaN (k = "nan", 0/0).    *)
(* Rates are compared exactly; the IEEE doubles of the source agree with   *)
(* the exact comparison on every count below 2^40, because the quotients   *)
(* 1/100, 3/200, 1/50, 3/100, 1/25, 1/20 and 1/5 times 100 round to the    *)
(* exact thresholds and any other quotient is further than 2^-50 from one. *)
(***************************************************************************)
EXTENDS Integers, Sequences, FiniteSets, TLC

VARIABLES
    df,            \* the data frame object handed to the rule engine
    df_before,     \* the data frame as it was when it was handed over
    called,        \* whether analyze_compliance_violations has returned
    result         \* what analyze_compliance_violations returned

VARIABLES
    text,          \* the argument of chunk_text
    chunk_size,    \* self.chunk_size
    chunk_overlap, \* self.chunk_overlap
    start,         \* the loop variable of chunk_text
    chunks,        \* the list chunk_text builds and returns
    windows,       \* the [start, end) window of every loop iteration so far
    pc             \* where chunk_text is: "call", "loop" or "done"

VARIABLES
    index,         \* the records of the ChromaDB collection "legal_documents"
    last_add,      \* the arguments of the most recent add_document call
    rag_op,        \* the most recent retrieval-store call: "none", "add", "clear"
    rag_ok,        \* whether that call returned success
    clear_failed,  \* whether the clearing step of that call raised
    embed_calls,   \* embed_documents calls made by the most recent add_document
    has_result,    \* what has_documents returned since: "none", "true", "false"
    search_result, \* what search_relevant_chunks last returned
    context_result \* what the retrieval get_context_for_query last returned

VARIABLES
    document_text,     \* DocumentService._document_text
    document_name,     \* DocumentService._document_name
    document_summary,  \* DocumentService._document_summary
    previous_text,     \* the document that was loaded before the current one
    generate_calls,    \* calls of _generate_text since the last add or clear
    generate_failed,   \* whether one of those calls raised
    get_calls,         \* get_context_for_query calls since then (2 = two or more)
    first_context,     \* what the first of those calls returned
    last_context,      \* what the latest of those calls returned
    doc_op             \* the latest call: "none", "add", "get", "clear"

VARIABLES
    prompted,        \* whether generate_analysis_prompt has been called
    prompt_context,  \* the context argument of that call
    prompt           \* the prompt it returned

engine_vars == <<df, df_before, called, result, prompted, prompt_context, prompt>>
chunk_vars == <<text, chunk_size, chunk_overlap, start, chunks, windows, pc>>
rag_vars == <<index, last_add, rag_op, rag_ok, clear_failed, embed_calls,
              has_result, search_result, context_result>>
VARIABLES
    wx_token,    \* WatsonxService._token: whether an access token is cached
    wx_op,       \* the latest call: "none", "chat", "analyze"
    wx_failed,   \* whether the token request or the generation request raised
    wx_result    \* the dictionary that call returned

wx_vars == <<wx_token, wx_op, wx_failed, wx_result>>

VARIABLES
    uploader,        \* the file the uploader widget holds
    button_shown,    \* whether the latest run showed 'Clear Knowledge Base'
    kb_cleared,      \* a press emptied the knowledge base since the last selection
    messages,        \* st.session_state.messages
    history_before,  \* the messages before the latest submission
    chat_event       \* the latest interaction: "none", "select", "remove", "clear", "submit"

chat_vars == <<uploader, button_shown, kb_cleared, messages, history_before, chat_event>>
doc_vars == <<document_text, document_name, document_summary, previous_text,
              generate_calls, generate_failed, get_calls, first_context,
              last_context, doc_op>>
vars == <<engine_vars, chunk_vars, rag_vars, doc_vars, wx_vars, chat_vars>>

(***************************************************************************)
(* Bounds of the explored inputs.                                          *)
(***************************************************************************)
MaxRows == 2
MaxDrop == 5
MaxNulls == 1
MaxLenUnits == 5
MaxMarks == 2
MaxWindows == 6
MaxGenerateCalls == 3

(***************************************************************************)
(* Cells, rates and column names.                                          *)
(***************************************************************************)
CUSTOMER_ID == "customer_id"
SERVICE_AREA == "service_area"
TOT_CALL_CNT == "tot_call_cnt_d"
CALL_DROP_CNT == "call_drop_cnt_d"
CALL_DURATION == "call_duration"
CALLER_NUMBER == "caller_number"
CALL_TIME == "call_time"
CUSTOMER_DROP_RATE == "customer_drop_rate"
HOUR == "hour"

InputColumns ==
    {CUSTOMER_ID, SERVICE_AREA, TOT_CALL_CNT, CALL_DROP_CNT,
     CALL_DURATION, CALLER_NUMBER, CALL_TIME}

Val(x) == [k |-> "val", v |-> x]
NaN == [k |-> "nan", v |-> 0]
Unparseable == [k |-> "bad", v |-> 0]

isnull(c) == c.k = "nan"

RateVal(a, b) == [k |-> "val", n |-> a, d |-> b]
RateInf == [k |-> "inf", n |-> 1, d |-> 0]
RateNaN == [k |-> "nan", n |-> 0, d |-> 0]

\* a / b * 100 on numbers, as numpy divides: x/0 is inf, 0/0 is NaN
Percent(a, b) ==
    IF b = 0 THEN (IF a = 0 THEN RateNaN ELSE RateInf)
    ELSE RateVal(100 * a, b)

\* element-wise x / y * 100 on cells: a null operand gives a null
PercentCells(x, y) ==
    IF x.k # "val" \/ y.k # "val" THEN RateNaN ELSE Percent(x.v, y.v)

\* rate > a/b ; every comparison with NaN is false
RateGT(r, a, b) ==
    CASE r.k = "inf" -> TRUE
      [] r.k = "nan" -> FALSE
      [] OTHER -> r.n * b > a * r.d

RateLE(r, a, b) ==
    CASE r.k = "inf" -> FALSE
      [] r.k = "nan" -> FALSE
      [] OTHER -> r.n * b <= a * r.d

(***************************************************************************)
(* Data frame primitives (pandas).                                         *)
(***************************************************************************)
\* F applied to the value of x, x being evaluated once
Bind(x, F(_)) == CHOOSE y \in {F(v) : v \in {x}} : TRUE

RECURSIVE SumSeq(_)
SumSeq(s) == IF s = <<>> THEN 0 ELSE Head(s) + SumSeq(Tail(s))

\* len(df)
len_df(d) == SumSeq([i \in 1..Len(d.rows) |-> d.rows[i].n])

\* len(df[mask]) : the number of rows whose group satisfies P
CountRows(d, P(_)) ==
    SumSeq([i \in 1..Len(d.rows) |-> IF P(d.rows[i].cell) THEN d.rows[i].n ELSE 0])

\* df[c].sum() : nulls are skipped
SumColumn(d, c) ==
    SumSeq([i \in 1..Len(d.rows) |->
              IF d.rows[i].cell[c].k = "val"
              THEN d.rows[i].n * d.rows[i].cell[c].v ELSE 0])

\* df[c].isnull().sum()
NullCount(d, c) == CountRows(d, LAMBDA cell : isnull(cell[c]))

\* df[name] = values : adds (or replaces) a column, f gives the cell of a row
WithColumn(d, name, f(_)) ==
    [cols |-> d.cols \cup {name},
     rows |-> [i \in 1..Len(d.rows) |->
                 [n |-> d.rows[i].n,
                  cell |-> [c \in d.cols \cup {name} |->
                              IF c = name THEN f(d.rows[i].cell)
                              ELSE d.rows[i].cell[c]]]]]

RECURSIVE SortedSeq(_)
SortedSeq(S) ==
    IF S = {} THEN <<>>
    ELSE LET m == CHOOSE x \in S : \A y \in S : x <= y
         IN <<m>> \o SortedSeq(S \ {m})

(***************************************************************************)
(* Findings.  A type string is kept as its sequence of words, so that the  *)
(* substring test "Drop" in type is a test on the words.                   *)
(***************************************************************************)
Finding(type, count, penalty_range, info) ==
    [type |-> type, count |-> count, penalty_range |-> penalty_range, info |-> info]

T_CallDropRate == <<"TRAI", "Call", "Drop", "Rate", "Violation">>
T_CallDropWarning == <<"High", "Call", "Drop", "Rate", "(Warning)">>
T_CallDropModerate == <<"Moderate", "Call", "Drop", "Rate">>
T_AreaDropRate == <<"TRAI", "Service", "Area", "Drop", "Rate", "Violation">>
T_AreaDropWarning == <<"Service", "Area", "Drop", "Rate", "Warning">>
T_CustomerDrop == <<"Individual", "Customer", "Drop", "Issues">>
T_DurationDrop == <<"Duration-based", "Call", "Drop", "Detection">>
T_ExcessiveDuration == <<"Excessive", "Call", "Duration">>
T_HighFrequency == <<"High", "Frequency", "Calling">>
T_OffHours == <<"Off-Hours", "Calling">>
T_DataQuality == <<"Data", "Quality", "Issues">>

NoInfo == [none |-> TRUE]

\* _get_drop_penalty_tier
\* a grading whose thresholds include their bound
get_drop_penalty_tier_inclusive(drop_rate) ==
    IF ~RateLE(drop_rate, 5, 1) \/ drop_rate = RateVal(500, 100)
    THEN [penalty |-> "5-10 lakh (Severe violation)", calculation |-> "Tier 4 penalty (>5%)"]
    ELSE IF ~RateLE(drop_rate, 4, 1) \/ drop_rate = RateVal(400, 100)
    THEN [penalty |-> "2-5 lakh (High violation)", calculation |-> "Tier 3 penalty (4-5%)"]
    ELSE IF ~RateLE(drop_rate, 3, 1) \/ drop_rate = RateVal(300, 100)
    THEN [penalty |-> "1-2 lakh (Medium violation)", calculation |-> "Tier 2 penalty (3-4%)"]
    ELSE [penalty |-> "50,000-1 lakh (Base violation)", calculation |-> "Tier 1 penalty (2-3%)"]

get_drop_penalty_tier(drop_rate) ==
    IF RateGT(drop_rate, 5, 1)
    THEN [penalty |-> "5-10 lakh (Severe violation)", calculation |-> "Tier 4 penalty (>5%)"]
    ELSE IF RateGT(drop_rate, 4, 1)
    THEN [penalty |-> "2-5 lakh (High violation)", calculation |-> "Tier 3 penalty (4-5%)"]
    ELSE IF RateGT(drop_rate, 3, 1)
    THEN [penalty |-> "1-2 lakh (Medium violation)", calculation |-> "Tier 2 penalty (3-4%)"]
    ELSE [penalty |-> "50,000-1 lakh (Base violation)", calculation |-> "Tier 1 penalty (2-3%)"]

(***************************************************************************)
(* _analyze_call_drops: four methods run in sequence.  Each returns        *)
(* [raised, high, medium, low, df]: raised = a KeyError left the method    *)
(* (a column it selects is not in the frame), df = the frame afterwards.   *)
(***************************************************************************)
MethodResult(raised, high, medium, low, d) ==
    [raised |-> raised, high |-> high, medium |-> medium, low |-> low, df |-> d]

Skipped(d) == MethodResult(FALSE, <<>>, <<>>, <<>>, d)
Raised(d) == MethodResult(TRUE, <<>>, <<>>, <<>>, d)

\* the TRAI benchmark test: drop_rate > 2.0
ExceedsBenchmark_inclusive(drop_rate) ==
    RateGT(drop_rate, 2, 1) \/ (drop_rate.k = "val" /\ drop_rate.n = 2 * drop_rate.d)

ExceedsBenchmark(drop_rate) == RateGT(drop_rate, 2, 1)

AggregateDropRate_unguarded(d) ==
    Percent(SumColumn(d, CALL_DROP_CNT), SumColumn(d, TOT_CALL_CNT))

\* the aggregate drop rate of lines 115-117: 0 when no calls were counted
AggregateDropRate(d) ==
    LET total_calls == SumColumn(d, TOT_CALL_CNT)
        total_drops == SumColumn(d, CALL_DROP_CNT)
    IN IF total_calls > 0 THEN RateVal(100 * total_drops, total_calls)
       ELSE RateVal(0, 1)

\* Method 1: direct call drop count analysis
Method1(d) ==
    IF ~({CALL_DROP_CNT, TOT_CALL_CNT} \subseteq d.cols) THEN Skipped(d)
    ELSE
    LET total_drops == SumColumn(d, CALL_DROP_CNT)
        drop_rate == AggregateDropRate(d)
        customers_with_drops ==
            CountRows(d, LAMBDA cell :
                cell[CALL_DROP_CNT].k = "val" /\ cell[CALL_DROP_CNT].v > 0)
        info == [rate |-> drop_rate, customers_affected |-> customers_with_drops]
    IN IF ExceedsBenchmark(drop_rate)
       THEN LET penalty_tier == get_drop_penalty_tier(drop_rate)
            IN \* sample_records selects customer_id and service_area
               IF ~({CUSTOMER_ID, SERVICE_AREA} \subseteq d.cols) THEN Raised(d)
               ELSE MethodResult(FALSE,
                        <<Finding(T_CallDropRate, total_drops, penalty_tier.penalty,
                                  [rate |-> drop_rate,
                                   customers_affected |-> customers_with_drops,
                                   penalty_calculation |-> penalty_tier.calculation])>>,
                        <<>>, <<>>, d)
       ELSE IF RateGT(drop_rate, 3, 2)
       THEN MethodResult(FALSE, <<>>,
                <<Finding(T_CallDropWarning, total_drops, "50,000 - Warning level", info)>>,
                <<>>, d)
       ELSE IF RateGT(drop_rate, 1, 1)
       THEN MethodResult(FALSE, <<>>, <<>>,
                <<Finding(T_CallDropModerate, total_drops,
                          "No penalty - monitoring recommended", info)>>, d)
       ELSE Skipped(d)

\* df.groupby('service_area').agg(sum, sum, count): one row per non-null
\* area, in ascending key order
AreaAnalysis(d) ==
    LET keys == SortedSeq({d.rows[i].cell[SERVICE_AREA].v :
                              i \in {j \in 1..Len(d.rows) :
                                        d.rows[j].cell[SERVICE_AREA].k = "val"}})
        InArea(a, i) == d.rows[i].cell[SERVICE_AREA].k = "val"
                        /\ d.rows[i].cell[SERVICE_AREA].v = a
        GroupSum(a, c) ==
            SumSeq([i \in 1..Len(d.rows) |->
                      IF InArea(a, i) /\ d.rows[i].cell[c].k = "val"
                      THEN d.rows[i].n * d.rows[i].cell[c].v ELSE 0])
        GroupCount(a, c) ==
            SumSeq([i \in 1..Len(d.rows) |->
                      IF InArea(a, i) /\ ~isnull(d.rows[i].cell[c])
                      THEN d.rows[i].n ELSE 0])
    IN [i \in 1..Len(keys) |->
          [service_area |-> keys[i],
           call_drop_cnt_d |-> GroupSum(keys[i], CALL_DROP_CNT),
           tot_call_cnt_d |-> GroupSum(keys[i], TOT_CALL_CNT),
           customer_id |-> GroupCount(keys[i], CUSTOMER_ID),
           drop_rate |-> Percent(GroupSum(keys[i], CALL_DROP_CNT),
                                 GroupSum(keys[i], TOT_CALL_CNT))]]

\* Method 2: location-based drop analysis using service_area
Method2(d) ==
    IF ~({SERVICE_AREA, CALL_DROP_CNT} \subseteq d.cols) THEN Skipped(d)
    ELSE IF ~({TOT_CALL_CNT, CUSTOMER_ID} \subseteq d.cols) THEN Raised(d)
    ELSE
    Bind(AreaAnalysis(d), LAMBDA area_analysis :
    LET trai_violation_areas ==
            SelectSeq(area_analysis, LAMBDA a : RateGT(a.drop_rate, 2, 1))
        warning_areas ==
            SelectSeq(area_analysis,
                      LAMBDA a : RateGT(a.drop_rate, 3, 2) /\ RateLE(a.drop_rate, 2, 1))
        high ==
            IF trai_violation_areas # <<>>
            THEN LET worst_area == trai_violation_areas[1]
                     penalty_tier == get_drop_penalty_tier(worst_area.drop_rate)
                 IN <<Finding(T_AreaDropRate, Len(trai_violation_areas),
                              penalty_tier.penalty,
                              [worst_area |-> worst_area.service_area,
                               worst_rate |-> worst_area.drop_rate,
                               penalty_calculation |-> penalty_tier.calculation,
                               areas_affected |-> trai_violation_areas])>>
            ELSE <<>>
        medium ==
            IF warning_areas # <<>>
            THEN <<Finding(T_AreaDropWarning, Len(warning_areas),
                           "50,000 - Monitoring required",
                           [areas_affected |-> warning_areas])>>
            ELSE <<>>
    IN MethodResult(FALSE, high, medium, <<>>, d))

\* Method 3: customer-level drop analysis; writes df['customer_drop_rate']
Method3(d) ==
    IF ~({CALL_DROP_CNT, TOT_CALL_CNT} \subseteq d.cols) THEN Skipped(d)
    ELSE
    Bind(WithColumn(d, CUSTOMER_DROP_RATE,
                    LAMBDA cell : PercentCells(cell[CALL_DROP_CNT], cell[TOT_CALL_CNT])),
         LAMBDA d2 :
    LET high_drop_customers ==
            CountRows(d2, LAMBDA cell : RateGT(cell[CUSTOMER_DROP_RATE], 20, 1))
    IN IF high_drop_customers > 0
       THEN \* sample_customers selects customer_id and service_area
            IF ~({CUSTOMER_ID, SERVICE_AREA} \subseteq d2.cols) THEN Raised(d2)
            ELSE MethodResult(FALSE, <<>>,
                     <<Finding(T_CustomerDrop, high_drop_customers,
                               "Service quality investigation required", NoInfo)>>,
                     <<>>, d2)
       ELSE Skipped(d2))

\* Method 4: call duration-based analysis
Method4(d) ==
    IF CALL_DURATION \notin d.cols THEN Skipped(d)
    ELSE
    LET potential_drops ==
            CountRows(d, LAMBDA cell :
                cell[CALL_DURATION].k = "val" /\ cell[CALL_DURATION].v < 3)
        drop_rate == IF len_df(d) > 0 THEN RateVal(100 * potential_drops, len_df(d))
                     ELSE RateVal(0, 1)
    IN IF RateGT(drop_rate, 2, 1)
       THEN MethodResult(FALSE,
                <<Finding(T_DurationDrop, potential_drops,
                          get_drop_penalty_tier(drop_rate).penalty,
                          [rate |-> drop_rate])>>,
                <<>>, <<>>, d)
       ELSE Skipped(d)

\* runs method b on the frame method a left, unless a raised
Then(a, Mb(_)) ==
    Bind(a, LAMBDA ra :
        IF ra.raised THEN ra
        ELSE Bind(Mb(ra.df), LAMBDA rb :
                 IF rb.raised THEN Raised(rb.df)
                 ELSE MethodResult(FALSE, ra.high \o rb.high, ra.medium \o rb.medium,
                                   ra.low \o rb.low, rb.df)))

analyze_call_drops(d) ==
    Then(Then(Then(Method1(d), Method2), Method3), Method4)

(***************************************************************************)
(* analyze_compliance_violations                                           *)
(***************************************************************************)
HighPenaltyAverage == 300000
MediumPenaltyAverage == 125000
LowPenaltyAverage == 50000
HighScoreWeight == 40
MediumScoreWeight == 20
LowScoreWeight == 10

Max(a, b) == IF a >= b THEN a ELSE b

\* "Drop" in v.get("type", "")
HasDropMarker(v) == \E i \in 1..Len(v.type) : v.type[i] = "Drop"

\* 2. call duration analysis: calls over one hour
ExcessiveDuration(d) ==
    IF CALL_DURATION \notin d.cols THEN <<>>
    ELSE LET long_calls ==
                 CountRows(d, LAMBDA cell :
                     cell[CALL_DURATION].k = "val" /\ cell[CALL_DURATION].v > 3600)
         IN IF long_calls > 0
            THEN <<Finding(T_ExcessiveDuration, long_calls,
                           "1-2 lakh for service quality issues", NoInfo)>>
            ELSE <<>>

\* 2. call frequency analysis: value_counts() of the non-null caller numbers
HighFrequency(d) ==
    IF CALLER_NUMBER \notin d.cols THEN <<>>
    ELSE LET callers == {d.rows[i].cell[CALLER_NUMBER].v :
                            i \in {j \in 1..Len(d.rows) :
                                      d.rows[j].cell[CALLER_NUMBER].k = "val"}}
             call_frequency(c) ==
                 CountRows(d, LAMBDA cell :
                     cell[CALLER_NUMBER].k = "val" /\ cell[CALLER_NUMBER].v = c)
             high_freq_callers == {c \in callers : call_frequency(c) > 100}
         IN IF high_freq_callers # {}
            THEN <<Finding(T_HighFrequency, Cardinality(high_freq_callers), "none", NoInfo)>>
            ELSE <<>>

\* 3. time pattern analysis, inside its own try/except: pd.to_datetime fails
\* on an unparseable cell before anything is assigned; otherwise df['hour']
\* is written.  Returns [low, df].
OffHours(d) ==
    IF CALL_TIME \notin d.cols THEN [low |-> <<>>, df |-> d]
    ELSE IF \E i \in 1..Len(d.rows) : d.rows[i].cell[CALL_TIME].k = "bad"
    THEN [low |-> <<>>, df |-> d]
    ELSE Bind(WithColumn(d, HOUR, LAMBDA cell : cell[CALL_TIME]), LAMBDA d2 :
         LET off_hours ==
                 CountRows(d2, LAMBDA cell :
                     cell[HOUR].k = "val" /\ (cell[HOUR].v < 8 \/ cell[HOUR].v > 22))
         IN [low |-> IF off_hours > 0
                     THEN <<Finding(T_OffHours, off_hours, "none",
                                    [percentage |-> RateVal(100 * off_hours, len_df(d2))])>>
                     ELSE <<>>,
             df |-> d2])

\* 4. data quality: df.isnull().sum().sum() over every column of the frame
DataQuality(d) ==
    LET affected == {c \in d.cols : NullCount(d, c) > 0}
        missing_data == SumSeq([i \in 1..Len(d.rows) |->
                            d.rows[i].n * Cardinality({c \in d.cols : isnull(d.rows[i].cell[c])})])
    IN IF missing_data > 0
       THEN <<Finding(T_DataQuality, missing_data, "none",
                      [columns_affected |-> [c \in affected |-> NullCount(d, c)]])>>
       ELSE <<>>

trai_compliance_score_unclamped(h, m, l) ==
    100 - (h * HighScoreWeight + m * MediumScoreWeight + l * LowScoreWeight)

trai_compliance_score(h, m, l) ==
    Max(0, 100 - (h * HighScoreWeight + m * MediumScoreWeight + l * LowScoreWeight))

estimated_penalty_inr(h, m, l) ==
    h * HighPenaltyAverage + m * MediumPenaltyAverage + l * LowPenaltyAverage

call_drop_found(high, medium, low) ==
    \E i \in 1..Len(high \o medium) : HasDropMarker((high \o medium)[i])

Summary(d, high, medium, low) ==
    [total_records_analyzed |-> len_df(d),
     high_risk_count |-> Len(high),
     medium_risk_count |-> Len(medium),
     low_risk_count |-> Len(low),
     trai_compliance_score |-> trai_compliance_score(Len(high), Len(medium), Len(low)),
     estimated_penalty_inr |-> estimated_penalty_inr(Len(high), Len(medium), Len(low)),
     call_drop_violation_detected |-> call_drop_found(high, medium, low)]

NoSummary == [none |-> TRUE]

\* the value returned, and the frame as the call leaves it
analyze_compliance_violations(d) ==
    Bind(analyze_call_drops(d), LAMBDA drops :
       IF drops.raised
       THEN [success |-> FALSE, high_risk |-> <<>>, medium_risk |-> <<>>,
             low_risk |-> <<>>, summary |-> NoSummary, df |-> drops.df]
       ELSE
       Bind(OffHours(drops.df), LAMBDA time :
       Bind(<<drops.high \o ExcessiveDuration(drops.df),
              drops.medium \o HighFrequency(drops.df),
              drops.low \o time.low \o DataQuality(time.df)>>, LAMBDA tiers :
          [success |-> TRUE, high_risk |-> tiers[1], medium_risk |-> tiers[2],
           low_risk |-> tiers[3],
           summary |-> Summary(time.df, tiers[1], tiers[2], tiers[3]),
           df |-> time.df])))

(***************************************************************************)
(* The data frames the engine is run on.                                   *)
(***************************************************************************)
Row(n, cust, area, tot, drop, dur, caller, time) ==
    [n |-> n,
     cell |-> (CUSTOMER_ID :> cust) @@ (SERVICE_AREA :> area) @@ (TOT_CALL_CNT :> tot)
              @@ (CALL_DROP_CNT :> drop) @@ (CALL_DURATION :> dur)
              @@ (CALLER_NUMBER :> caller) @@ (CALL_TIME :> time)]

CleanRow == Row(1, Val(1), Val(1), Val(100), Val(0), Val(60), Val(1), Val(12))
ViolatingRow == Row(1, Val(2), Val(2), Val(100), Val(30), Val(4000), Val(2), Val(23))
BulkRow == Row(101, Val(3), Val(1), Val(100), Val(2), Val(1), Val(3), Val(7))
GarbledRow == Row(1, Val(4), Val(2), Val(100), Val(1), Val(60), Val(4), Unparseable)

RowTemplates == {CleanRow, ViolatingRow, BulkRow, GarbledRow}

SeqsUpTo(S, k) == UNION {[1..j -> S] : j \in 1..k}

\* the frame with the columns cols of the full rows
Frame(cols, rows) ==
    [cols |-> cols,
     rows |-> [i \in 1..Len(rows) |->
                 [n |-> rows[i].n, cell |-> [c \in cols |-> rows[i].cell[c]]]]]

\* every subset of the columns, over the template rows
ColumnDataset(d) ==
    \E cols \in SUBSET InputColumns, rows \in SeqsUpTo(RowTemplates, MaxRows) :
        d = Frame(cols, rows)

AreaValues == {1, 2}
TotValues == {0, 100}

CountRowsOf ==
    {Row(1, Val(1), Val(a), Val(t), Val(x), NaN, NaN, NaN) :
        a \in AreaValues, t \in TotValues, x \in 0..MaxDrop}

\* the four drop-count columns, over every small count
DropColumns == {CUSTOMER_ID, SERVICE_AREA, TOT_CALL_CNT, CALL_DROP_CNT}

DropDataset(d) ==
    \E rows \in SeqsUpTo(CountRowsOf, MaxRows) : d = Frame(DropColumns, rows)

\* the worked example of the specification: totals [1000, 1000], drops [30, 10]
ExampleFrame ==
    Frame(DropColumns,
          <<Row(1, Val(1), Val(1), Val(1000), Val(30), NaN, NaN, NaN),
            Row(1, Val(2), Val(1), Val(1000), Val(10), NaN, NaN, NaN)>>)

\* rows with the cells at the positions in nulled (pairs <<row, column>>) null
Nulled(rows, nulled) ==
    [i \in 1..Len(rows) |->
        [n |-> rows[i].n,
         cell |-> [c \in InputColumns |->
                     IF <<i, c>> \in nulled THEN NaN ELSE rows[i].cell[c]]]]

\* the subsets of S with at most k elements
RECURSIVE SubsetsUpTo(_, _)
SubsetsUpTo(S, k) ==
    IF k = 0 THEN {{}}
    ELSE LET smaller == SubsetsUpTo(S, k - 1)
         IN smaller \cup {T \cup {x} : T \in smaller, x \in S}

\* all seven columns, with at most MaxNulls null cells
NullDataset(d) ==
    \E rows \in SeqsUpTo({CleanRow, ViolatingRow}, MaxRows) :
        \E nulled \in SubsetsUpTo((1..Len(rows)) \X InputColumns, MaxNulls) :
            d = Frame(InputColumns, Nulled(rows, nulled))

NoResult ==
    [success |-> FALSE, high_risk |-> <<>>, medium_risk |-> <<>>, low_risk |-> <<>>,
     summary |-> NoSummary]

(***************************************************************************)
(* Texts.  A text is [len, fill, marks]: len characters, the character at  *)
(* position p (from 0) being of class marks[p] if p is marked and of class *)
(* fill otherwise.  Classes: "L" a letter, "P" one of . ! ?, "N" a newline *)
(* (sentence-terminal and whitespace), "S" another whitespace character.   *)
(* The fill class is "L" or "S", so only marked positions are terminal.    *)
(***************************************************************************)
IsTerminal(c) == c \in {"P", "N"}
IsSpace(c) == c \in {"N", "S"}

CharAt(t, p) == IF p \in DOMAIN t.marks THEN t.marks[p] ELSE t.fill

Min(a, b) == IF a <= b THEN a ELSE b

SetMin(S) == CHOOSE x \in S : \A y \in S : x <= y
SetMax(S) == CHOOSE x \in S : \A y \in S : x >= y

\* the positions p, a <= p < b, that hold a non-whitespace character and can
\* be the first or the last such position of [a, b)
NonSpaceEnds(t, a, b) ==
    IF IsSpace(t.fill)
    THEN {p \in DOMAIN t.marks : a <= p /\ p < b /\ ~IsSpace(t.marks[p])}
    ELSE LET k == Cardinality(DOMAIN t.marks)
         IN {p \in (a..Min(b - 1, a + k)) \cup (Max(a, b - 1 - k)..(b - 1)) :
                ~IsSpace(CharAt(t, p))}

\* a slice that starts one character late: text[a+1:b].strip()
Strip_from_second(t, a, b) ==
    LET e == Min(b, t.len)
        ends == NonSpaceEnds(t, a + 1, e)
    IN IF ends = {} THEN [lo |-> a, hi |-> a]
       ELSE [lo |-> SetMin(ends), hi |-> SetMax(ends) + 1]

\* text[a:b].strip() as the range [lo, hi) it occupies in the text; an empty
\* result is [lo |-> a, hi |-> a]
Strip(t, a, b) ==
    LET e == Min(b, t.len)
        ends == NonSpaceEnds(t, a, e)
    IN IF ends = {} THEN [lo |-> a, hi |-> a]
       ELSE [lo |-> SetMin(ends), hi |-> SetMax(ends) + 1]

\* the values i for which text[i-1] is a sentence-terminal character: a
\* marked position q is read by the index q and by the negative index
\* q - len(text)
TerminalCuts(t) ==
    UNION {{q + 1, q - t.len + 1} : q \in {r \in DOMAIN t.marks : IsTerminal(t.marks[r])}}

\* a search that runs down to the start of the window
CutEnd_to_start(t, s, size, overlap) ==
    LET end == s + size
        cuts == {i \in TerminalCuts(t) : s < i /\ i <= end}
    IN IF end < t.len /\ cuts # {} THEN SetMax(cuts) ELSE end

\* the end of the window that starts at s: s + chunk_size, moved back to the
\* nearest i with a sentence-terminal text[i-1], i running from s + chunk_size
\* down to max(s + chunk_size - overlap, s) + 1, when the window ends inside
\* the text
CutEnd(t, s, size, overlap) ==
    LET end == s + size
        low == Max(s + size - overlap, s)
        cuts == {i \in TerminalCuts(t) : low < i /\ i <= end}
    IN IF end < t.len /\ cuts # {} THEN SetMax(cuts) ELSE end

\* the search of lines 63-64 reads text[i-1] with i-1 < -len(text), an
\* IndexError, before it meets a sentence-terminal character
CutRaises(t, s, size, overlap) ==
    LET end == s + size
        low == Max(s + size - overlap, s)
    IN /\ end < t.len
       /\ low < end
       /\ low < 0 - t.len
       /\ {i \in TerminalCuts(t) : low < i /\ i <= end} = {}

\* a slice bound as text[a:b] reads it: a negative bound counts from the end
\* of the text, and the result is clamped to 0..len(text)
SliceIndex(t, i) == IF i < 0 THEN Max(t.len + i, 0) ELSE Min(i, t.len)

\* a loop that starts the next window where the last one ended
LoopBody_no_overlap(t, s, size, overlap) ==
    LET end == CutEnd(t, s, size, overlap)
        chunk == Strip(t, s, end)
    IN [end |-> end,
        kept |-> IF chunk.hi > chunk.lo
                 THEN <<[start |-> s, end |-> end, lo |-> chunk.lo, hi |-> chunk.hi]>>
                 ELSE <<>>,
        next |-> end]

\* one iteration of the while loop: the window, the chunk kept (if any) and
\* the next start
LoopBody(t, s, size, overlap) ==
    LET end == CutEnd(t, s, size, overlap)
        chunk == Strip(t, SliceIndex(t, s), SliceIndex(t, end))
    IN [end |-> end,
        kept |-> IF chunk.hi > chunk.lo
                 THEN <<[start |-> s, end |-> end, lo |-> chunk.lo, hi |-> chunk.hi]>>
                 ELSE <<>>,
        next |-> end - overlap]

(***************************************************************************)
(* chunk_text as a state machine.                                          *)
(***************************************************************************)
DEFAULT_CHUNK_SIZE == 1000
DEFAULT_CHUNK_OVERLAP == 200

MarkPositions == {0, 799, 800, 999, 1000, 1799, 1800}
MarkClasses == {"P", "N", "S"}

TextLens == {u * 500 + j : u \in 0..MaxLenUnits, j \in {0, 1}}

Texts ==
    {[len |-> n, fill |-> f, marks |-> m] :
        n \in TextLens, f \in {"L", "S"},
        m \in UNION {[D -> MarkClasses] : D \in SubsetsUpTo(MarkPositions, MaxMarks)}}

ChunkInit ==
    /\ text \in {t \in Texts : \A p \in DOMAIN t.marks : p < t.len}
    /\ chunk_size = DEFAULT_CHUNK_SIZE
    /\ chunk_overlap = DEFAULT_CHUNK_OVERLAP
    /\ start = 0
    /\ chunks = <<>>
    /\ windows = <<>>
    /\ pc = "call"

\* lines 51-55: a short text is returned whole, otherwise the loop is entered
ChunkCall ==
    /\ pc = "call"
    /\ IF text.len <= chunk_size
       THEN /\ chunks' = <<[start |-> 0, end |-> text.len, lo |-> 0, hi |-> text.len]>>
            /\ pc' = "done"
       ELSE /\ chunks' = <<>>
            /\ pc' = IF 0 < text.len THEN "loop" ELSE "done"
    /\ start' = 0
    /\ windows' = <<>>
    /\ UNCHANGED <<text, chunk_size, chunk_overlap, engine_vars, rag_vars, doc_vars, wx_vars, chat_vars>>

\* lines 57-76: one iteration of the while loop; the exploration stops
\* after MaxWindows iterations
ChunkLoop ==
    /\ pc = "loop"
    /\ Len(windows) < MaxWindows
    /\ IF CutRaises(text, start, chunk_size, chunk_overlap)
       THEN /\ pc' = "raised"
            /\ UNCHANGED <<windows, chunks, start>>
       ELSE \E body \in {LoopBody(text, start, chunk_size, chunk_overlap)} :
               /\ windows' = Append(windows, [start |-> start, end |-> body.end])
               /\ chunks' = chunks \o body.kept
               /\ start' = body.next
               /\ pc' = IF body.next >= text.len THEN "done" ELSE "loop"
    /\ UNCHANGED <<text, chunk_size, chunk_overlap, engine_vars, rag_vars, doc_vars, wx_vars, chat_vars>>

\* configurations whose overlap is not below the chunk size
WideConfigs == {<<1000, 1000>>, <<1000, 1200>>, <<500, 1500>>}

ChunkInitWide ==
    /\ text \in {t \in Texts : /\ Cardinality(DOMAIN t.marks) <= 1
                                /\ \A p \in DOMAIN t.marks : p < t.len}
    /\ \E c \in WideConfigs : chunk_size = c[1] /\ chunk_overlap = c[2]
    /\ start = 0
    /\ chunks = <<>>
    /\ windows = <<>>
    /\ pc = "call"

ChunkIdle ==
    /\ text = [len |-> 0, fill |-> "L", marks |-> <<>>]
    /\ chunk_size = DEFAULT_CHUNK_SIZE
    /\ chunk_overlap = DEFAULT_CHUNK_OVERLAP
    /\ start = 0
    /\ chunks = <<>>
    /\ windows = <<>>
    /\ pc = "done"

\* a composed prompt: the bullets listed and the context text it contains
NoPrompt == [bullets |-> <<>>, context |-> ""]

EngineIdle ==
    /\ df = ExampleFrame
    /\ df_before = df
    /\ called = TRUE
    /\ result = NoResult
    /\ prompted = TRUE
    /\ prompt_context = ""
    /\ prompt = NoPrompt

ChunkNext == ChunkCall \/ ChunkLoop

(***************************************************************************)
(* The retrieval store (RAGService).                                       *)
(***************************************************************************)
\* the while loop of chunk_text from start s to its return
RECURSIVE ChunkFrom(_, _, _, _)
ChunkFrom(t, s, size, overlap) ==
    Bind(LoopBody(t, s, size, overlap), LAMBDA body :
        IF body.next >= t.len THEN body.kept
        ELSE body.kept \o ChunkFrom(t, body.next, size, overlap))

\* chunk_text(text): the list it returns
chunk_text(t, size, overlap) ==
    IF t.len <= size
    THEN <<[start |-> 0, end |-> t.len, lo |-> 0, hi |-> t.len]>>
    ELSE IF 0 < t.len THEN ChunkFrom(t, 0, size, overlap) ELSE <<>>

PlainText(n) == [len |-> n, fill |-> "L", marks |-> <<>>]

\* the documents handed to the store: empty, short, of three chunks with a
\* sentence end, and of whitespace only, short and long
RagTexts ==
    {PlainText(0), PlainText(500),
     [len |-> 1800, fill |-> "L", marks |-> (899 :> "P")],
     [len |-> 500, fill |-> "S", marks |-> <<>>],
     [len |-> 1500, fill |-> "S", marks |-> <<>>]}

RagNames == {"a.txt", "b.txt"}

\* the records add_document builds for a text: id f"{name}_chunk_{i}", the
\* chunk as the document, and the metadata
RecordsWith(t, name, size, overlap) ==
    LET cs == chunk_text(t, size, overlap)
    IN {[id |-> <<name, "chunk", i - 1>>,
         document |-> [text |-> t, lo |-> cs[i].lo, hi |-> cs[i].hi],
         document_name |-> name,
         chunk_index |-> i - 1,
         chunk_size |-> cs[i].hi - cs[i].lo] : i \in 1..Len(cs)}

RecordsOf(t, name) == RecordsWith(t, name, DEFAULT_CHUNK_SIZE, DEFAULT_CHUNK_OVERLAP)

Ids(records) == {r.id : r \in records}

\* clear_documents: collection.get() and collection.delete(ids) inside a
\* try/except that prints and swallows; fails = one of the two calls raised
Cleared(records, fails) == IF fails THEN records ELSE {}

NoDocument == [text |-> PlainText(0), name |-> "none"]

\* a string built from chunks: the chunks joined, its length, and whether
\* the truncation marker was appended
NoContext == [parts |-> <<>>, len |-> 0, marker |-> FALSE]

RagInit ==
    /\ index = {}
    /\ last_add = NoDocument
    /\ rag_op = "none"
    /\ rag_ok = TRUE
    /\ clear_failed = FALSE
    /\ embed_calls = 0
    /\ has_result = "none"
    /\ search_result = <<>>
    /\ context_result = NoContext

RagIdle == RagInit

\* whether add_document stops at the test of line 89
NoChunks(t, new) == new = {}

\* add_document(document_text, document_name).  The environment decides
\* whether the clearing step raises and whether the embedding call or the
\* insert raises; an insert that meets an id already stored either raises
\* ("duplicate") or skips that id, as the ChromaDB version in use does.
AddDocument ==
    \E t \in RagTexts, name \in RagNames :
    \E clear_raises \in BOOLEAN, failure \in {"none", "embed", "add", "duplicate"} :
    \E kept \in {Cleared(stored, clear_raises) : stored \in {index}} :
    \E new \in {RecordsOf(t, name)} :
        /\ last_add' = [text |-> t, name |-> name]
        /\ rag_op' = "add"
        /\ clear_failed' = clear_raises
        /\ has_result' = "none"
        /\ IF NoChunks(t, new)
           THEN /\ failure = "none"
                /\ index' = kept
                /\ rag_ok' = FALSE
                /\ embed_calls' = 0
           ELSE /\ failure = "duplicate" => Ids(new) \cap Ids(kept) # {}
                /\ embed_calls' = 1
                /\ IF failure = "none"
                   THEN /\ index' = kept \cup {r \in new : r.id \notin Ids(kept)}
                        /\ rag_ok' = TRUE
                   ELSE /\ index' = kept
                        /\ rag_ok' = FALSE
        /\ UNCHANGED <<search_result, context_result, engine_vars, chunk_vars, doc_vars, wx_vars, chat_vars>>

\* clear_documents() called by the user interface
ClearDocuments ==
    \E clear_raises \in BOOLEAN :
        /\ index' = Cleared(index, clear_raises)
        /\ rag_op' = "clear"
        /\ rag_ok' = TRUE
        /\ clear_failed' = clear_raises
        /\ has_result' = "none"
        /\ UNCHANGED <<last_add, embed_calls, search_result, context_result,
                       engine_vars, chunk_vars, doc_vars, wx_vars, chat_vars>>

\* has_documents(): collection.count() > 0, and False when count() raises
has_documents(records, count_raises) == ~count_raises /\ Cardinality(records) > 0

HasDocuments ==
    \E count_raises \in BOOLEAN :
        /\ has_result' = IF has_documents(index, count_raises) THEN "true" ELSE "false"
        /\ UNCHANGED <<index, last_add, rag_op, rag_ok, clear_failed, embed_calls,
                       search_result, context_result, engine_vars, chunk_vars, doc_vars, wx_vars, chat_vars>>

RagNext == AddDocument \/ ClearDocuments \/ HasDocuments

(***************************************************************************)
(* Retrieval: search_relevant_chunks and get_context_for_query.            *)
(***************************************************************************)
MAX_RESULTS == 3
CONTEXT_LIMIT == 4000
SEPARATOR_LEN == 7
MARKER_LEN == 24

\* all orders in which the nearest-neighbour search can rank a set of records
RECURSIVE Rankings(_)
Rankings(records) ==
    IF records = {} THEN {<<>>}
    ELSE UNION {{<<r.document>> \o rest : rest \in Rankings(records \ {r})} : r \in records}

\* collection.query(n_results) gives every ranked document
TopK_all(ranked) == ranked

\* collection.query(n_results = max_results) gives the first max_results
TopK(ranked) == SubSeq(ranked, 1, Min(MAX_RESULTS, Len(ranked)))

\* search_relevant_chunks: the except branch returns [] when embed_query or
\* collection.query raises
search_relevant_chunks(ranked, raises) == IF raises THEN <<>> ELSE TopK(ranked)

\* a join that puts the separator after every chunk
JoinedLen_trailing_separator(found) ==
    IF found = <<>> THEN 0
    ELSE SumSeq([i \in 1..Len(found) |-> found[i].hi - found[i].lo])
         + SEPARATOR_LEN * Len(found)

\* len("\n\n---\n\n".join(found))
JoinedLen(found) ==
    IF found = <<>> THEN 0
    ELSE SumSeq([i \in 1..Len(found) |-> found[i].hi - found[i].lo])
         + SEPARATOR_LEN * (Len(found) - 1)

\* the test of line 167 with >= in place of >
TooLong_inclusive(n) == n >= CONTEXT_LIMIT

\* the test of line 167
TooLong(n) == n > CONTEXT_LIMIT

\* get_context_for_query on the chunks found
context_of(found) ==
    IF found = <<>> THEN NoContext
    ELSE IF TooLong(JoinedLen(found))
         THEN [parts |-> found, len |-> CONTEXT_LIMIT + MARKER_LEN, marker |-> TRUE]
         ELSE [parts |-> found, len |-> JoinedLen(found), marker |-> FALSE]

\* the stores queried: one document (text, chunk_size, chunk_overlap) loaded
\* under the default configuration or under one with larger chunks
QueryStores ==
    {<<PlainText(500), 1000, 200>>,
     <<PlainText(2500), 1000, 200>>,
     <<PlainText(2600), 1000, 200>>,
     <<[len |-> 1800, fill |-> "L", marks |-> (899 :> "P")], 1000, 200>>,
     <<[len |-> 1500, fill |-> "S", marks |-> <<>>], 1000, 200>>,
     <<PlainText(4000), 5000, 200>>,
     <<PlainText(4001), 5000, 200>>,
     <<PlainText(5000), 2000, 200>>,
     <<PlainText(2500), 2000, 200>>}

RagQueryInit ==
    \E c \in QueryStores : \E t \in {c[1]} :
        /\ index = RecordsWith(t, "a.txt", c[2], c[3])
        /\ last_add = [text |-> t, name |-> "a.txt"]
        /\ rag_op = "add"
        /\ rag_ok = (index # {})
        /\ clear_failed = FALSE
        /\ embed_calls = IF index # {} THEN 1 ELSE 0
        /\ has_result = "none"
        /\ search_result = <<>>
        /\ context_result = NoContext

\* search_relevant_chunks(query), lines 123-143
SearchRelevantChunks ==
    \E embed_raises, query_raises \in BOOLEAN, ranked \in Rankings(index) :
        /\ search_result' = search_relevant_chunks(ranked, embed_raises \/ query_raises)
        /\ rag_op' = "search"
        /\ rag_ok' = ~(embed_raises \/ query_raises)
        /\ UNCHANGED <<index, last_add, clear_failed, embed_calls, has_result,
                       context_result, engine_vars, chunk_vars, doc_vars, wx_vars, chat_vars>>

\* get_context_for_query(query), lines 155-170, with the search it makes
GetContextForQuery ==
    \E embed_raises, query_raises \in BOOLEAN, ranked \in Rankings(index) :
    \E found \in {search_relevant_chunks(ranked, embed_raises \/ query_raises)} :
        /\ search_result' = found
        /\ context_result' = context_of(found)
        /\ rag_op' = "context"
        /\ rag_ok' = ~(embed_raises \/ query_raises)
        /\ UNCHANGED <<index, last_add, clear_failed, embed_calls, has_result,
                       engine_vars, chunk_vars, doc_vars, wx_vars, chat_vars>>

RagQueryNext == SearchRelevantChunks \/ GetContextForQuery

(***************************************************************************)
(* The direct-context store (DocumentService).  A string is a record       *)
(* [kind, id, len, variant]: the text of document id ("text", len its      *)
(* length), a generated summary of it ("summary", len the length of the    *)
(* prefix put into the prompt, variant the answer of the model), the       *)
(* fallback ("fallback", len the length of the prefix kept before the      *)
(* truncation marker), or None ("none").                                   *)
(***************************************************************************)
MAX_CONTEXT_LENGTH == 30000
MAX_SUMMARY_LENGTH == 8000

Str(kind, id, n, variant) == [kind |-> kind, id |-> id, len |-> n, variant |-> variant]
None == Str("none", 0, 0, 0)
EmptyStr == Str("text", 0, 0, 0)

\* the documents loaded: the empty one, a short one, one that fits the
\* context limit exactly, and three longer ones
DocLens == <<100, 30000, 30001, 90000, 90000>>

DocTexts ==
    {EmptyStr} \cup {Str("text", i, DocLens[i], 0) : i \in 1..Len(DocLens)}

\* the answers _generate_text can give; 0 stands for a raised exception
GenerateOutcomes == 0..2

\* _generate_summary(text) when _generate_text answers with outcome g
generate_summary_raising(t, g) ==
    IF g = 0 THEN Str("raised", t.id, 0, 0)
    ELSE Str("summary", t.id, Min(t.len, MAX_SUMMARY_LENGTH * 3), g)

generate_summary(t, g) ==
    IF g = 0 THEN Str("fallback", t.id, Min(t.len, MAX_CONTEXT_LENGTH), 0)
    ELSE Str("summary", t.id, Min(t.len, MAX_SUMMARY_LENGTH * 3), g)

\* what add_document leaves in the summary cache
SummaryAfterAdd_kept == document_summary

SummaryAfterAdd == None

\* whether get_context_for_query has to generate (line 78)
NeedsSummary_always(summary) == TRUE

NeedsSummary(summary) == summary = None

DocInit ==
    /\ document_text = None
    /\ document_name = "none"
    /\ document_summary = None
    /\ previous_text = None
    /\ generate_calls = 0
    /\ generate_failed = FALSE
    /\ get_calls = 0
    /\ first_context = None
    /\ last_context = None
    /\ doc_op = "none"

DocIdle == DocInit

\* add_document(document_text, document_name), lines 30-46
DocAddDocument ==
    \E t \in DocTexts, name \in RagNames :
        /\ document_text' = t
        /\ document_name' = name
        /\ document_summary' = SummaryAfterAdd
        /\ previous_text' = document_text
        /\ generate_calls' = 0
        /\ generate_failed' = FALSE
        /\ get_calls' = 0
        /\ first_context' = None
        /\ last_context' = None
        /\ doc_op' = "add"
        /\ UNCHANGED <<engine_vars, chunk_vars, rag_vars, wx_vars, chat_vars>>

\* get_context_for_query(query), lines 68-82; the exploration stops after
\* MaxGenerateCalls generation calls on one document
DocGetContext ==
    /\ generate_calls < MaxGenerateCalls
    /\ \E g \in GenerateOutcomes :
       \E generates \in {/\ document_text # None
                         /\ document_text.len > 0
                         /\ document_text.len > MAX_CONTEXT_LENGTH
                         /\ NeedsSummary(document_summary)} :
       \E summary \in {IF generates THEN generate_summary(document_text, g)
                       ELSE document_summary} :
       \E context \in {IF document_text = None \/ document_text.len = 0 THEN EmptyStr
                       ELSE IF document_text.len <= MAX_CONTEXT_LENGTH THEN document_text
                       ELSE summary} :
          /\ (~generates => g = 0)
          /\ document_summary' = summary
          /\ generate_calls' = IF generates THEN generate_calls + 1 ELSE generate_calls
          /\ generate_failed' = (generate_failed \/ (generates /\ g = 0))
          /\ get_calls' = Min(get_calls + 1, 2)
          /\ first_context' = IF get_calls = 0 THEN context ELSE first_context
          /\ last_context' = context
          /\ doc_op' = "get"
          /\ UNCHANGED <<document_text, document_name, previous_text,
                         engine_vars, chunk_vars, rag_vars, wx_vars, chat_vars>>

\* clear_documents(), lines 88-92
DocClearDocuments ==
    /\ document_text' = None
    /\ document_name' = "none"
    /\ document_summary' = None
    /\ previous_text' = document_text
    /\ generate_calls' = 0
    /\ generate_failed' = FALSE
    /\ get_calls' = 0
    /\ first_context' = None
    /\ last_context' = None
    /\ doc_op' = "clear"
    /\ UNCHANGED <<engine_vars, chunk_vars, rag_vars, wx_vars, chat_vars>>

DocNext == DocAddDocument \/ DocGetContext \/ DocClearDocuments

(***************************************************************************)
(* The generation service (WatsonxService).  A result is a record          *)
(* [status, prompt, answer, error]: the prompt sent, the answer of the     *)
(* model (0 when there is none) and the message of the exception caught    *)
(* ("" when there is none).                                                *)
(***************************************************************************)
WxResult(status, sent, answer, error) ==
    [status |-> status, prompt |-> sent, answer |-> answer, error |-> error]

NoWxResult == WxResult("none", <<>>, 0, "")

Questions == {"q1", "q2", "q3", "q4", "q5"}
WxDocuments == {"d1", "d2", "d3"}
WxContexts == {"", "c1", "c2"}
Answers == 1..4

\* the prompt of chat_response: with the context when there is one
ChatPrompt(question, context) ==
    IF context # "" THEN <<"Context", context, "Question", question>>
    ELSE <<"Question", question>>

\* what _generate_text does: "token" = the token request raised, "request" =
\* the generation request raised, "" = an answer came back
GenerateFailures(token) == (IF token THEN {} ELSE {"token"}) \cup {"request", ""}

\* the dictionary built when _generate_text raised, with the exception left
\* to the caller
WxOutcome_propagating(sent, failure, answer) ==
    IF failure # "" THEN WxResult("raised", sent, 0, failure)
    ELSE WxResult("success", sent, answer, "")

\* the dictionary of the try/except of chat_response and analyze_document
WxOutcome(sent, failure, answer) ==
    IF failure # "" THEN WxResult("error", sent, 0, failure)
    ELSE WxResult("success", sent, answer, "")

WxInit ==
    /\ wx_token = FALSE
    /\ wx_op = "none"
    /\ wx_failed = FALSE
    /\ wx_result = NoWxResult

WxIdle == WxInit

\* chat_response(question, context), lines 106-133
ChatResponse ==
    \E question \in Questions, context \in WxContexts :
    \E failure \in GenerateFailures(wx_token), answer \in Answers :
        /\ failure # "" => answer = 1
        /\ wx_token' = (wx_token \/ failure # "token")
        /\ wx_op' = "chat"
        /\ wx_failed' = (failure # "")
        /\ wx_result' = WxOutcome(ChatPrompt(question, context), failure, answer)
        /\ UNCHANGED <<engine_vars, chunk_vars, rag_vars, doc_vars, chat_vars>>

\* analyze_document(document_text), lines 78-104
AnalyzeDocument ==
    \E document \in WxDocuments :
    \E failure \in GenerateFailures(wx_token), answer \in Answers :
        /\ failure # "" => answer = 1
        /\ wx_token' = (wx_token \/ failure # "token")
        /\ wx_op' = "analyze"
        /\ wx_failed' = (failure # "")
        /\ wx_result' = WxOutcome(<<"Document", document>>, failure, answer)
        /\ UNCHANGED <<engine_vars, chunk_vars, rag_vars, doc_vars, chat_vars>>

WxNext == ChatResponse \/ AnalyzeDocument

(***************************************************************************)
(* The chat page (chat_section).  One action is one interaction of the     *)
(* user with the script runs it triggers; every run goes through the       *)
(* upload block, the status block and the chat block in that order.        *)
(***************************************************************************)
MaxSubmissions == 2

NoFile == NoDocument

UploadFiles ==
    {[text |-> PlainText(500), name |-> "a.txt"],
     [text |-> [len |-> 1800, fill |-> "L", marks |-> (899 :> "P")], name |-> "b.txt"],
     [text |-> [len |-> 500, fill |-> "S", marks |-> <<>>], name |-> "c.txt"]}

ChatQuestions == {"q1"}

\* document_text.strip() is not empty (line 133)
HasText(t) == Strip(t, 0, t.len).hi > Strip(t, 0, t.len).lo

\* add_document(document_text, document_name): the index it leaves and its
\* success flag
add_document(records, t, name, clear_raises, failure) ==
    LET kept == Cleared(records, clear_raises)
        new == RecordsOf(t, name)
    IN IF NoChunks(t, new) THEN [index |-> kept, success |-> FALSE]
       ELSE IF failure = "none"
            THEN [index |-> kept \cup {r \in new : r.id \notin Ids(kept)}, success |-> TRUE]
            ELSE [index |-> kept, success |-> FALSE]

\* the failures add_document can meet on these records
AddFailures(records, t, name, clear_raises) ==
    {"none", "embed", "add"} \cup
    (IF Ids(RecordsOf(t, name)) \cap Ids(Cleared(records, clear_raises)) # {}
     THEN {"duplicate"} ELSE {})

\* the upload block, lines 113-146: the indexes a run can leave; the file the
\* uploader holds is added again on every run
AfterUpload(records, file) ==
    IF file = NoFile \/ ~HasText(file.text) THEN {records}
    ELSE UNION {{add_document(records, file.text, file.name, clear_raises, failure).index :
                    failure \in AddFailures(records, file.text, file.name, clear_raises)} :
                clear_raises \in BOOLEAN}

\* the status block, line 149: the results has_documents() can give
StatusOf(records) == {has_documents(records, count_raises) : count_raises \in BOOLEAN}

\* the context the chat block passes to chat_response, lines 183-188: "" or
\* "retrieved"
ChatContexts(records) ==
    UNION {IF has_documents(records, count_raises)
           THEN {IF context_of(search_relevant_chunks(ranked, raises)).len = 0
                 THEN "" ELSE "retrieved" :
                    ranked \in Rankings(records), raises \in BOOLEAN}
           ELSE {""} : count_raises \in BOOLEAN}

UserEntry(question) == [role |-> "user", content |-> <<question>>]
AssistantEntry(kind, detail) == [role |-> "assistant", content |-> <<kind, detail>>]

\* a chat block whose try has no except branch
ChatTurn_uncaught(question, construct_raises, context, failure, answer) ==
    IF construct_raises THEN <<>>
    ELSE LET response == WxOutcome(ChatPrompt(question, context), failure, answer)
         IN IF response.status = "success"
            THEN <<AssistantEntry("answer", response.answer)>>
            ELSE <<AssistantEntry("Error", response.error)>>

\* the entries the try/except of lines 178-209 appends after the user's
ChatTurn(question, construct_raises, context, failure, answer) ==
    IF construct_raises THEN <<AssistantEntry("Service error", "configuration")>>
    ELSE LET response == WxOutcome(ChatPrompt(question, context), failure, answer)
         IN IF response.status = "success"
            THEN <<AssistantEntry("answer", response.answer)>>
            ELSE <<AssistantEntry("Error", response.error)>>

\* all the entries one submission can append
Submissions(records, question) ==
    {<<UserEntry(question)>> \o ChatTurn(question, construct_raises, context, failure, answer) :
        construct_raises \in BOOLEAN, context \in ChatContexts(records),
        failure \in GenerateFailures(FALSE), answer \in Answers}

ChatInit ==
    /\ uploader = NoFile
    /\ button_shown = FALSE
    /\ kb_cleared = FALSE
    /\ messages = <<>>
    /\ history_before = <<>>
    /\ chat_event = "none"

ChatIdle == ChatInit

\* the store fields that belong to direct calls of the store
rag_calls == <<last_add, rag_op, rag_ok, clear_failed, embed_calls, has_result,
               search_result, context_result>>

\* the user puts a file into the uploader: one run
SelectFile ==
    \E file \in UploadFiles :
    \E added \in AfterUpload(index, file) :
    \E shown \in StatusOf(added) :
        /\ uploader' = file
        /\ index' = added
        /\ button_shown' = shown
        /\ kb_cleared' = FALSE
        /\ chat_event' = "select"
        /\ UNCHANGED <<messages, history_before, rag_calls,
                       engine_vars, chunk_vars, doc_vars, wx_vars>>

\* the user takes the file out of the uploader: one run, nothing is added
\* and nothing is removed
RemoveFile ==
    /\ uploader # NoFile
    /\ \E shown \in StatusOf(index) :
        /\ uploader' = NoFile
        /\ button_shown' = shown
        /\ chat_event' = "remove"
        /\ UNCHANGED <<index, kb_cleared, messages, history_before, rag_calls,
                       engine_vars, chunk_vars, doc_vars, wx_vars>>

\* the user presses 'Clear Knowledge Base': the run of the press goes through
\* the upload block, and when the status block shows the button it calls
\* clear_documents() and st.rerun() (lines 155-157); the run that follows
\* goes through the upload block and the status block again
PressClear ==
    /\ button_shown
    /\ \E added \in AfterUpload(index, uploader) :
       \E shown \in StatusOf(added) :
          IF ~shown
          THEN /\ index' = added
               /\ button_shown' = FALSE
               /\ UNCHANGED kb_cleared
          ELSE \E clear_raises \in BOOLEAN :
               \E again \in AfterUpload(Cleared(added, clear_raises), uploader) :
               \E shown_again \in StatusOf(again) :
                  /\ index' = again
                  /\ button_shown' = shown_again
                  /\ kb_cleared' = IF clear_raises THEN kb_cleared ELSE TRUE
    /\ chat_event' = "clear"
    /\ UNCHANGED <<uploader, messages, history_before, rag_calls,
                   engine_vars, chunk_vars, doc_vars, wx_vars>>

\* the user submits a question (lines 171-209): one run
SubmitPrompt ==
    /\ Len(messages) < 2 * MaxSubmissions
    /\ \E question \in ChatQuestions :
       \E added \in AfterUpload(index, uploader) :
       \E shown \in StatusOf(added) :
       \E appended \in Submissions(added, question) :
          /\ index' = added
          /\ button_shown' = shown
          /\ history_before' = messages
          /\ messages' = messages \o appended
    /\ chat_event' = "submit"
    /\ UNCHANGED <<uploader, kb_cleared, rag_calls,
                   engine_vars, chunk_vars, doc_vars, wx_vars>>

ChatNext == SelectFile \/ RemoveFile \/ PressClear \/ SubmitPrompt

(***************************************************************************)
(* The rule engine as a state machine: a frame is handed over, and         *)
(* analyze_compliance_violations runs on it once.                          *)
(***************************************************************************)
EngineInit ==
    /\ \/ ColumnDataset(df)
       \/ DropDataset(df)
       \/ df = ExampleFrame
       \/ NullDataset(df)
    /\ df_before = df
    /\ called = FALSE
    /\ result = NoResult
    /\ prompted = FALSE
    /\ prompt_context = ""
    /\ prompt = NoPrompt

AnalyzeComplianceViolations ==
    /\ ~called
    /\ \E r \in {analyze_compliance_violations(df)} :
          /\ result' = [success |-> r.success, high_risk |-> r.high_risk,
                        medium_risk |-> r.medium_risk, low_risk |-> r.low_risk,
                        summary |-> r.summary]
          /\ df' = r.df
    /\ called' = TRUE
    /\ UNCHANGED <<df_before, prompted, prompt_context, prompt,
                   chunk_vars, rag_vars, doc_vars, wx_vars, chat_vars>>

\* the bullet of line 367: the type and the description of a finding, the
\* description being the text made of the finding's figures
Bullet(f) == [type |-> f.type, description |-> [count |-> f.count, info |-> f.info]]

\* lines 364-367: the findings in the order high, medium, low
violation_list(high, medium, low) ==
    LET all == high \o medium \o low
    IN [i \in 1..Len(all) |-> Bullet(all[i])]

\* a slice that keeps every bullet
FirstThree_all(list) == list

\* violation_list[:3]
FirstThree(list) == SubSeq(list, 1, Min(3, Len(list)))

\* generate_analysis_prompt(violations, context): the context argument is
\* not used in the body
generate_analysis_prompt(high, medium, low, context) ==
    [bullets |-> FirstThree(violation_list(high, medium, low)), context |-> ""]

\* the contexts passed: none, or a retrieved regulatory context
PromptContexts == {"", "regulation A", "regulation B"}

\* the user interface composes the prompt after a successful scan
GenerateAnalysisPrompt ==
    /\ called /\ result.success /\ ~prompted
    /\ \E context \in PromptContexts :
          /\ prompt_context' = context
          /\ prompt' = generate_analysis_prompt(result.high_risk, result.medium_risk,
                                                result.low_risk, context)
    /\ prompted' = TRUE
    /\ UNCHANGED <<df, df_before, called, result, chunk_vars, rag_vars, doc_vars, wx_vars, chat_vars>>

EngineNext == AnalyzeComplianceViolations \/ GenerateAnalysisPrompt


(***************************************************************************)
(* Specifications.                                                         *)
(***************************************************************************)
InitEngine == EngineInit /\ ChunkIdle /\ RagIdle /\ DocIdle /\ WxIdle /\ ChatIdle
SpecEngine == InitEngine /\ [][EngineNext]_vars

InitChunk == ChunkInit /\ EngineIdle /\ RagIdle /\ DocIdle /\ WxIdle /\ ChatIdle
SpecChunk == InitChunk /\ [][ChunkNext]_vars

InitChunkWide == ChunkInitWide /\ EngineIdle /\ RagIdle /\ DocIdle /\ WxIdle /\ ChatIdle
SpecChunkWide == InitChunkWide /\ [][ChunkNext]_vars

InitRag == RagInit /\ EngineIdle /\ ChunkIdle /\ DocIdle /\ WxIdle /\ ChatIdle
SpecRag == InitRag /\ [][RagNext]_vars

InitRagQuery == RagQueryInit /\ EngineIdle /\ ChunkIdle /\ DocIdle /\ WxIdle /\ ChatIdle
SpecRagQuery == InitRagQuery /\ [][RagQueryNext]_vars

InitDoc == DocInit /\ EngineIdle /\ ChunkIdle /\ RagIdle /\ WxIdle /\ ChatIdle
SpecDoc == InitDoc /\ [][DocNext]_vars

InitChat == ChatInit /\ EngineIdle /\ ChunkIdle /\ RagIdle /\ DocIdle /\ WxIdle
SpecChat == InitChat /\ [][ChatNext]_vars

InitWx == WxInit /\ EngineIdle /\ ChunkIdle /\ RagIdle /\ DocIdle /\ ChatIdle
SpecWx == InitWx /\ [][WxNext]_vars

(***************************************************************************)
(* Properties of the rule engine.                                          *)
(***************************************************************************)
NumOfType(findings, type) ==
    Cardinality({i \in 1..Len(findings) : findings[i].type = type})

TotalNulls(d) ==
    SumSeq([i \in 1..Len(d.rows) |->
              d.rows[i].n * Cardinality({c \in d.cols : isnull(d.rows[i].cell[c])})])

\* C1: whenever the scan succeeds, the summary counts are the lengths h, m, l
\* of the three tier lists, the score is max(0, 100 - 40h - 20m - 10l), hence
\* within 0..100 (100 without findings, 0 from three high findings on), and
\* the penalty estimate is 300000h + 125000m + 50000l.
C1_SummaryFromTierCounts ==
    (called /\ result.success) =>
        LET h == Len(result.high_risk)
            m == Len(result.medium_risk)
            l == Len(result.low_risk)
            raw == 100 - 40 * h - 20 * m - 10 * l
            sm == result.summary
        IN /\ sm.high_risk_count = h
           /\ sm.medium_risk_count = m
           /\ sm.low_risk_count = l
           /\ sm.trai_compliance_score = (IF raw > 0 THEN raw ELSE 0)
           /\ sm.trai_compliance_score \in 0..100
           /\ (h + m + l = 0 => sm.trai_compliance_score = 100)
           /\ (h >= 3 => sm.trai_compliance_score = 0)
           /\ sm.estimated_penalty_inr = 300000 * h + 125000 * m + 50000 * l
           /\ ((h = 1 /\ m = 2 /\ l = 0) => sm.estimated_penalty_inr = 550000)

\* a successful scan whose raw score 100 - 40h - 20m - 10l is negative
C1_Witness ==
    /\ called /\ result.success
    /\ 40 * Len(result.high_risk) + 20 * Len(result.medium_risk)
          + 10 * Len(result.low_risk) > 100

\* C2: with the four drop columns present the aggregate detector gives at
\* most one finding, by strict thresholds on 100 * sum(drops) / sum(totals):
\* above 2 high, above 1.5 medium, above 1 low, else none; a zero sum of
\* totals counts as rate 0 and gives no aggregate finding and no fault.
C2_AggregateThresholds ==
    (called /\ DropColumns \subseteq df_before.cols) =>
        LET totals == SumColumn(df_before, TOT_CALL_CNT)
            drops == SumColumn(df_before, CALL_DROP_CNT)
            h == NumOfType(result.high_risk, T_CallDropRate)
            m == NumOfType(result.medium_risk, T_CallDropWarning)
            l == NumOfType(result.low_risk, T_CallDropModerate)
        IN /\ result.success
           /\ h + m + l <= 1
           /\ NumOfType(result.medium_risk \o result.low_risk, T_CallDropRate) = 0
           /\ NumOfType(result.high_risk \o result.low_risk, T_CallDropWarning) = 0
           /\ NumOfType(result.high_risk \o result.medium_risk, T_CallDropModerate) = 0
           /\ (totals = 0 => h + m + l = 0)
           /\ (totals > 0 =>
                 /\ h = 1 <=> 100 * drops > 2 * totals
                 /\ m = 1 <=> (200 * drops > 3 * totals /\ 100 * drops <= 2 * totals)
                 /\ l = 1 <=> (100 * drops > totals /\ 200 * drops <= 3 * totals))

\* drops were counted although no call was: the division guard decides
C2_Witness ==
    /\ called
    /\ DropColumns \subseteq df_before.cols
    /\ SumColumn(df_before, TOT_CALL_CNT) = 0
    /\ SumColumn(df_before, CALL_DROP_CNT) > 0
    /\ result.success

\* the aggregate drop rate of the frame handed over is exactly 2%
ExactlyTwoPercent ==
    /\ DropColumns \subseteq df_before.cols
    /\ SumColumn(df_before, TOT_CALL_CNT) > 0
    /\ 100 * SumColumn(df_before, CALL_DROP_CNT) = 2 * SumColumn(df_before, TOT_CALL_CNT)

\* C3 as stated: at an aggregate drop rate of exactly 2% the aggregate
\* finding is in the high tier, with the base (2-3%) penalty sub-tier.
C3_Original ==
    (called /\ ExactlyTwoPercent) =>
        \E i \in 1..Len(result.high_risk) :
            /\ result.high_risk[i].type = T_CallDropRate
            /\ result.high_risk[i].penalty_range = "50,000-1 lakh (Base violation)"

\* C3 as amended: at an aggregate drop rate of exactly 2% the test > 2.0
\* fails, so there is no high-tier aggregate finding; the aggregate finding
\* is the medium-tier warning with the fixed warning penalty.
C3_ExactBenchmarkIsWarning ==
    (called /\ ExactlyTwoPercent) =>
        /\ result.success
        /\ NumOfType(result.high_risk, T_CallDropRate) = 0
        /\ NumOfType(result.low_risk, T_CallDropModerate) = 0
        /\ \E i \in 1..Len(result.medium_risk) :
              /\ result.medium_risk[i].type = T_CallDropWarning
              /\ result.medium_risk[i].penalty_range = "50,000 - Warning level"
              /\ result.medium_risk[i].count = SumColumn(df_before, CALL_DROP_CNT)

\* the worked example, totals [1000, 1000] and drops [30, 10], was analysed
C3_Witness == called /\ df_before = ExampleFrame /\ ExactlyTwoPercent

\* C4 as stated: whatever subset of the seven columns the frame has, the
\* scan returns success.
C4_Claim ==
    (called /\ df_before.cols \subseteq InputColumns) => result.success

\* a method of the drop analysis lets a KeyError escape on this frame
DetectorRaised(d) ==
    \/ Method1(d).raised
    \/ Method2(d).raised
    \/ Method3(d).raised

\* C5 as stated: when a single detector fails, the scan still returns
\* success with the summary.
C5_Claim ==
    (called /\ DetectorRaised(df_before)) =>
        (result.success /\ result.summary # NoSummary)

\* C6 as stated: the scan leaves the frame it was given as it was, the same
\* columns and the same cells.
C6_Claim == called => df = df_before

\* C7 as stated: exactly one null cell gives exactly one low-tier
\* missing-data finding with count 1 that lists only the column of the null
\* cell, with count 1; no null cell gives no missing-data finding.
C7_Claim ==
    (called /\ result.success) =>
        LET q == {i \in 1..Len(result.low_risk) : result.low_risk[i].type = T_DataQuality}
        IN /\ TotalNulls(df_before) = 0 => q = {}
           /\ TotalNulls(df_before) = 1 =>
                 /\ Cardinality(q) = 1
                 /\ \A i \in q :
                       /\ result.low_risk[i].count = 1
                       /\ \E c \in df_before.cols :
                             /\ NullCount(df_before, c) = 1
                             /\ DOMAIN result.low_risk[i].info.columns_affected = {c}
                             /\ result.low_risk[i].info.columns_affected[c] = 1

(***************************************************************************)
(* Properties of the chunker.                                              *)
(***************************************************************************)
\* C19: generate_analysis_prompt lists at most three findings, the first
\* three in the order high tier, medium tier, low tier, each list in its own
\* order; with fewer than three findings it lists them all; each is one
\* bullet of type and description.
C19_FirstThreeFindings ==
    (prompted /\ called /\ result.success) =>
        LET all == result.high_risk \o result.medium_risk \o result.low_risk
        IN /\ Len(prompt.bullets) = Min(3, Len(all))
           /\ \A i \in 1..Len(prompt.bullets) : prompt.bullets[i] = Bullet(all[i])

\* a prompt composed from four or more findings of at least two tiers
C19_Witness ==
    /\ prompted /\ called /\ result.success
    /\ Len(result.high_risk) + Len(result.medium_risk) + Len(result.low_risk) >= 4
    /\ Len(result.high_risk) \in 1..2
    /\ Len(prompt.bullets) = 3

\* C20 as stated: a prompt composed with a non-empty context contains that
\* context.
C20_Claim ==
    (prompted /\ called /\ result.success /\ prompt_context # "") =>
        prompt.context = prompt_context

\* rate x > rate y, as floats compare: false when either is NaN
RateAbove(x, y) ==
    CASE x.k = "nan" \/ y.k = "nan" -> FALSE
      [] x.k = "inf" -> y.k # "inf"
      [] y.k = "inf" -> FALSE
      [] OTHER -> x.n * y.d > y.n * x.d

AllFindings == result.high_risk \o result.medium_risk \o result.low_risk

\* C22 as stated: when some service area has a drop rate above 2.0%, the
\* one high-tier per-area finding names the area with the highest drop rate
\* among them, with that area's rate.
C22_Claim ==
    (called /\ result.success) =>
        \A i \in 1..Len(result.high_risk) :
            result.high_risk[i].type = T_AreaDropRate =>
                LET f == result.high_risk[i]
                IN \A j \in 1..Len(f.info.areas_affected) :
                      ~RateAbove(f.info.areas_affected[j].drop_rate, f.info.worst_rate)

\* C23 as stated: on a dataset that has both drop columns and call_duration
\* no 'Duration-based Call Drop Detection' finding is produced.
C23_Claim ==
    (called /\ result.success
       /\ {TOT_CALL_CNT, CALL_DROP_CNT, CALL_DURATION} \subseteq df_before.cols) =>
        NumOfType(result.high_risk, T_DurationDrop) = 0

\* C24 as stated: call_drop_violation_detected is true exactly when a
\* finding of any tier, high, medium or low, has the drop marker in its type.
C24_Claim ==
    (called /\ result.success) =>
        (result.summary.call_drop_violation_detected
           <=> \E i \in 1..Len(AllFindings) : HasDropMarker(AllFindings[i]))

\* the rate a graded finding was graded by
GradedRate(f) == IF f.type = T_AreaDropRate THEN f.info.worst_rate ELSE f.info.rate

\* C25: every finding of the aggregate, per-area and duration-proxy
\* detectors carries the penalty range of exactly one sub-tier, chosen by
\* strict thresholds on its rate: above 5 severe, above 4 up to 5 high,
\* above 3 up to 4 medium, above 2 up to 3 base; the four ranges differ.
C25_PenaltySubTier ==
    (called /\ result.success) =>
        \A i \in 1..Len(result.high_risk) :
            LET f == result.high_risk[i]
                r == GradedRate(f)
            IN f.type \in {T_CallDropRate, T_AreaDropRate, T_DurationDrop} =>
                  /\ RateGT(r, 2, 1)
                  /\ RateGT(r, 5, 1) => f.penalty_range = "5-10 lakh (Severe violation)"
                  /\ (RateGT(r, 4, 1) /\ RateLE(r, 5, 1))
                        => f.penalty_range = "2-5 lakh (High violation)"
                  /\ (RateGT(r, 3, 1) /\ RateLE(r, 4, 1))
                        => f.penalty_range = "1-2 lakh (Medium violation)"
                  /\ (RateGT(r, 2, 1) /\ RateLE(r, 3, 1))
                        => f.penalty_range = "50,000-1 lakh (Base violation)"

\* a scan whose aggregate rate is exactly 5%, graded in the high sub-tier,
\* next to a per-area finding
C25_Witness ==
    /\ called /\ result.success
    /\ \E i, j \in 1..Len(result.high_risk) :
          /\ result.high_risk[i].type = T_CallDropRate
          /\ result.high_risk[i].info.rate.n = 5 * result.high_risk[i].info.rate.d
          /\ result.high_risk[i].penalty_range = "2-5 lakh (High violation)"
          /\ result.high_risk[j].type = T_AreaDropRate

DefaultChunking ==
    chunk_size = DEFAULT_CHUNK_SIZE /\ chunk_overlap = DEFAULT_CHUNK_OVERLAP

\* C9: with chunk_size 1000 and overlap 200 the list is finite and ordered,
\* no chunk is longer than 1000 characters, every loop window after the
\* first starts exactly 200 characters before the cut of the window before
\* it, so two consecutive chunks share at most 200 characters; a text of at
\* most 1000 characters comes back as the single chunk holding all of it.
C9_ChunkBounds ==
    (DefaultChunking /\ pc # "call") =>
        /\ \A i \in 1..Len(chunks) :
              /\ chunks[i].hi - chunks[i].lo <= 1000
              /\ chunks[i].end - chunks[i].start <= 1000
        /\ \A k \in 2..Len(windows) : windows[k].start = windows[k - 1].end - 200
        /\ \A i \in 1..Len(chunks) :
              text.len > 1000 =>
                 \E k \in 1..Len(windows) :
                    windows[k] = [start |-> chunks[i].start, end |-> chunks[i].end]
        /\ \A i \in 1..(Len(chunks) - 1) :
              /\ chunks[i].start < chunks[i + 1].start
              /\ chunks[i].lo <= chunks[i + 1].lo
              /\ chunks[i].hi - chunks[i + 1].lo <= 200
        /\ Len(chunks) <= Len(windows) + 1
        /\ 601 * Len(windows) <= text.len + 601
        /\ (text.len <= 1000 /\ pc = "done") =>
              chunks = <<[start |-> 0, end |-> text.len, lo |-> 0, hi |-> text.len]>>

\* a finished run of three or more chunks in which a window was cut at a
\* sentence end, before its 1000th character
C9_Witness ==
    /\ DefaultChunking /\ pc = "done"
    /\ Len(chunks) >= 3
    /\ \E k \in 1..Len(windows) :
          windows[k].end < text.len /\ windows[k].end - windows[k].start < 1000

\* C10 as stated: when chunk_text has returned, every character position of
\* the text lies inside the [start, end) window of a returned chunk.
C10_Original ==
    (DefaultChunking /\ pc = "done") =>
        \A p \in 0..(text.len - 1) :
            \E i \in 1..Len(chunks) : chunks[i].start <= p /\ p < chunks[i].end

\* C10: when chunk_text has returned, every character position of the text
\* lies in the window of a loop iteration (of a returned chunk or of a
\* dropped all-whitespace iteration), and every non-whitespace character
\* lies inside a returned chunk: only whitespace is dropped.
C10_NoContentLost ==
    (DefaultChunking /\ pc = "done") =>
        \A p \in 0..(text.len - 1) :
            /\ \/ \E k \in 1..Len(windows) : windows[k].start <= p /\ p < windows[k].end
               \/ \E i \in 1..Len(chunks) : chunks[i].start <= p /\ p < chunks[i].end
            /\ ~IsSpace(CharAt(text, p)) =>
                  \E i \in 1..Len(chunks) : chunks[i].lo <= p /\ p < chunks[i].hi

\* a finished run in which an all-whitespace window was dropped and a
\* returned chunk lost whitespace at its cut
C10_Witness ==
    /\ DefaultChunking /\ pc = "done"
    /\ Len(windows) > Len(chunks)
    /\ \E i \in 1..Len(chunks) :
          chunks[i].hi < Min(chunks[i].end, text.len) /\ chunks[i].end < text.len

\* C27: with chunk_size 1000 and overlap 200 no window is cut earlier than
\* its start + 801 and every iteration moves the start forward by at least
\* 601, so the loop never raises, the start never moves backward, and the
\* number of iterations is bounded by the length of the text: while the loop
\* runs, 601 times the iterations done is at most the start, which is below
\* the length.
C27_Progress ==
    DefaultChunking =>
        /\ \A k \in 1..Len(windows) : windows[k].end >= windows[k].start + 801
        /\ \A k \in 2..Len(windows) : windows[k].start >= windows[k - 1].start + 601
        /\ Len(windows) > 0 => start >= windows[Len(windows)].start + 601
        /\ pc # "raised"
        /\ pc = "loop" =>
              /\ Len(windows) * 601 <= start
              /\ start < text.len
              /\ Len(windows) < MaxWindows

\* a finished call with a window cut at its start + 801, the earliest cut
C27_Witness ==
    /\ DefaultChunking /\ pc = "done" /\ Len(windows) >= 3
    /\ \E k \in 1..Len(windows) : windows[k].end = windows[k].start + 801

\* C11 as stated: when chunk_overlap >= chunk_size the start position moves
\* forward on every loop iteration, so chunk_text returns, and it returns at
\* least one chunk.
C11_Claim ==
    chunk_overlap >= chunk_size =>
        /\ pc # "raised"
        /\ \A k \in 2..Len(windows) : windows[k].start > windows[k - 1].start
        /\ (pc = "loop" /\ windows # <<>>) => start > windows[Len(windows)].start
        /\ pc = "done" => Len(chunks) >= 1

(***************************************************************************)
(* Properties of the retrieval store.                                      *)
(***************************************************************************)
\* C8 as stated: after any sequence of add_document and clear_documents
\* calls every record of the index belongs to the most recent add_document
\* call, and after a successful add_document(text, name) the index holds
\* exactly the chunks of that text under the ids name_chunk_0..name_chunk_(n-1).
C8_Claim ==
    /\ index \subseteq RecordsOf(last_add.text, last_add.name)
    /\ (rag_op = "add" /\ rag_ok) => index = RecordsOf(last_add.text, last_add.name)

\* C15: search_relevant_chunks returns (it never raises) at most max_results
\* chunk texts of the index, and the empty list when the index is empty or
\* when the query embedding or the index lookup fails.
C15_SearchBounded ==
    rag_op \in {"search", "context"} =>
        /\ Len(search_result) <= 3
        /\ \A i \in 1..Len(search_result) : search_result[i] \in {r.document : r \in index}
        /\ (index = {} \/ ~rag_ok) => search_result = <<>>

\* a search on an index of more than three chunks, and one that failed
C15_Witness ==
    /\ rag_op = "search" /\ Cardinality(index) > 3
    /\ rag_ok /\ Len(search_result) = 3

\* C16 as stated: when the joined text is longer than 4000 characters the
\* returned string is at most 4000 characters long and ends with the
\* truncation marker; otherwise the joined text is returned unchanged.
C16_Original ==
    rag_op = "context" =>
        IF JoinedLen(search_result) > 4000
        THEN context_result.len <= 4000 /\ context_result.marker
        ELSE context_result.len = JoinedLen(search_result) /\ ~context_result.marker

\* C16: get_context_for_query returns the retrieved chunks joined by the
\* separator; when the joined text is longer than 4000 characters it returns
\* the first 4000 characters of it followed by the truncation marker (4024
\* characters), otherwise the joined text unchanged with no marker; with
\* nothing retrieved it returns the empty string.
C16_JoinedAndTruncated ==
    rag_op = "context" =>
        /\ context_result.parts = search_result
        /\ IF JoinedLen(search_result) > 4000
           THEN context_result.len = 4000 + MARKER_LEN /\ context_result.marker
           ELSE context_result.len = JoinedLen(search_result) /\ ~context_result.marker

\* a context of three chunks that was cut
C16_Witness ==
    /\ rag_op = "context" /\ Len(search_result) = 3
    /\ JoinedLen(search_result) > 4000 /\ context_result.marker

\* the index holds a document chunked with chunk_size 1000 and overlap 200
DefaultStore == index = RecordsOf(last_add.text, last_add.name)

\* C28: with chunk_size 1000 and max_results 3 every stored chunk has at most
\* 1000 characters, the string get_context_for_query returns has at most
\* 3014 characters (3 chunks and 2 separators) and never carries the
\* truncation marker.
C28_NeverTruncated ==
    (DefaultStore /\ rag_op = "context") =>
        /\ \A r \in index : r.document.hi - r.document.lo <= 1000
        /\ Len(context_result.parts) <= 3
        /\ context_result.len <= 3014
        /\ ~context_result.marker

\* a context of three full chunks: 3014 characters
C28_Witness ==
    /\ DefaultStore /\ rag_op = "context"
    /\ context_result.len = 3014 /\ ~context_result.marker

\* C17 as stated, first part: has_documents() is false immediately after
\* clear_documents(), whatever was stored before.
C17_Claim ==
    (rag_op = "clear" /\ has_result # "none") => has_result = "false"

\* C26 as stated: an add_document call that fails after its clearing step
\* (the embedding raises, the insert raises, or no chunks were produced)
\* leaves the index empty, so the has_documents() that follows is false.
C26_Claim ==
    (rag_op = "add" /\ ~rag_ok) =>
        /\ index = {}
        /\ has_result \in {"none", "false"}

\* C18 as stated: add_document on a text that is empty after trimming (the
\* empty string, or whitespace only, of any length) returns a failure, calls
\* the embedding zero times and inserts nothing.
C18_Claim ==
    (rag_op = "add" /\ (last_add.text.len = 0 \/
                         (last_add.text.fill = "S" /\ DOMAIN last_add.text.marks = {}))) =>
        /\ ~rag_ok
        /\ embed_calls = 0
        /\ index \cap RecordsOf(last_add.text, last_add.name) = {}

(***************************************************************************)
(* Properties of the direct-context store.                                 *)
(***************************************************************************)
LongDocument == document_text # None /\ document_text.len > MAX_CONTEXT_LENGTH

\* C12: for a loaded document longer than max_context_length, the
\* get_context_for_query calls made since it was loaded invoke the generation
\* at most once in total, also when that invocation failed, and every call
\* returns the string the first call returned.
C12_Memoized ==
    LongDocument =>
        /\ generate_calls <= 1
        /\ get_calls >= 1 => (generate_calls = 1 /\ last_context = first_context)
        /\ get_calls >= 1 => document_summary = first_context

\* two or more calls on a long document whose one generation failed
C12_Witness ==
    /\ LongDocument /\ doc_op = "get" /\ get_calls = 2
    /\ first_context.kind = "fallback"

\* C13: after add_document(d2), whatever was loaded before, a
\* get_context_for_query returns d2 itself when d2 fits max_context_length,
\* and otherwise a summary or fallback made from d2 by a generation call
\* issued after d2 was loaded; it never returns the text of the earlier
\* document or a summary of it.
C13_ReplacesDocument ==
    (doc_op = "get" /\ document_text # None) =>
        /\ document_text.len <= MAX_CONTEXT_LENGTH => last_context = document_text
        /\ document_text.len > MAX_CONTEXT_LENGTH =>
              /\ last_context.kind \in {"summary", "fallback"}
              /\ last_context.id = document_text.id
              /\ generate_calls = 1
        /\ (previous_text # None /\ previous_text # document_text) =>
              /\ last_context # previous_text
              /\ (last_context.kind \in {"summary", "fallback"} /\ previous_text # EmptyStr)
                    => last_context.id # previous_text.id

\* a long document loaded over another long document, then queried
C13_Witness ==
    /\ doc_op = "get" /\ LongDocument
    /\ previous_text # None /\ previous_text.len > MAX_CONTEXT_LENGTH
    /\ previous_text # document_text
    /\ last_context.kind = "summary"

\* C14: when the generation fails while a document longer than
\* max_context_length is summarised, get_context_for_query returns (it does
\* not raise) the first max_context_length characters of the document
\* followed by the truncation marker.
C14_FallbackOnFailure ==
    (doc_op = "get" /\ LongDocument /\ generate_failed) =>
        last_context = Str("fallback", document_text.id, MAX_CONTEXT_LENGTH, 0)

\* a query on a long document whose generation call raised
C14_Witness ==
    /\ doc_op = "get" /\ LongDocument /\ generate_failed /\ get_calls = 1
    /\ document_text.len = 90000

(***************************************************************************)
(* Properties of the generation service.                                   *)
(***************************************************************************)
\* C21: chat_response and analyze_document return (they never raise) a
\* result whose status is 'error', with the message of the failure, when
\* the access-token request or the generation request failed, and 'success',
\* with the answer, otherwise; the status is always one of the two.
C21_StatusResult ==
    wx_op \in {"chat", "analyze"} =>
        /\ wx_result.status \in {"success", "error"}
        /\ wx_failed => (wx_result.status = "error" /\ wx_result.error \in {"token", "request"})
        /\ ~wx_failed => (wx_result.status = "success" /\ wx_result.answer \in Answers
                           /\ wx_result.error = "")

\* a chat call whose token request failed, after an earlier call
C21_Witness ==
    /\ wx_op = "chat" /\ wx_failed /\ wx_result.error = "token"
    /\ Len(wx_result.prompt) = 4

(***************************************************************************)
(* Properties of the chat page.                                            *)
(***************************************************************************)
\* C29 as stated: once a press of 'Clear Knowledge Base' has emptied the
\* knowledge base, it is empty on the run that follows the rerun and
\* has_documents() stays false until the user selects a document again,
\* also when the uploader still holds the file.
C29_Claim ==
    kb_cleared => (index = {} /\ ~button_shown)

\* C30: every submission appends the user's prompt followed by exactly one
\* assistant entry, whichever step failed, so the history has even length
\* and alternates user, assistant.
C30_TwoEntries ==
    /\ Len(messages) % 2 = 0
    /\ \A i \in 1..Len(messages) :
          messages[i].role = IF i % 2 = 1 THEN "user" ELSE "assistant"
    /\ chat_event = "submit" =>
          /\ Len(messages) = Len(history_before) + 2
          /\ SubSeq(messages, 1, Len(history_before)) = history_before

\* a submission whose service construction failed, then one that was answered
C30_Witness ==
    /\ chat_event = "submit" /\ Len(messages) = 4
    /\ messages[2].content[1] = "Service error"
    /\ messages[4].content[1] = "answer"

====
